---- MODULE Spec2Model ----
(***************************************************************************)
(* Model of moneybag.h: class Moneybag (three uint64_t coin counters with  *)
(* range-checked +=, -=, *= and a partial order) and class Value (the      *)
(* worth in deniers held in a 128-bit unsigned integer).                   *)
(*                                                                         *)
(* TLC's integers are 32 bits wide, so a uint64_t / uint128_t is held as   *)
(* its little-endian sequence of bytes and the machine arithmetic of the   *)
(* code (wrapping +, -, *, truncating /, comparisons, widening casts) is   *)
(* computed on those bytes.                                                *)
(***************************************************************************)
EXTENDS Integers, Sequences, FiniteSets, TLC

----------------------------------------------------------------------------
(* Fixed-width unsigned integers as little-endian byte sequences.          *)

\* One byte holds the values 0 .. Base - 1.
Base == 256

\* sizeof(coin_number_t) = sizeof(uint64_t).
CoinBytes == 8

\* sizeof(uint128_t).
WideBytes == 16

\* The n bytes b[1], ..., b[n] as a sequence.
Bytes(b, n) == SubSeq(b, 1, n)

\* The value v (0 <= v < 2^24) as an unsigned integer of n bytes.
Lit(v, n) ==
    Bytes([i \in 1..n |-> IF i = 1 THEN v % Base
                          ELSE IF i = 2 THEN (v \div Base) % Base
                          ELSE IF i = 3 THEN (v \div (Base * Base)) % Base
                          ELSE 0], n)

\* Conversion of x to an unsigned integer of n bytes: zero extension when
\* n is larger, reduction modulo 2^(8n) when n is smaller.
Resize(x, n) == Bytes([i \in 1..n |-> IF i <= Len(x) THEN x[i] ELSE 0], n)

RECURSIVE AddFrom(_, _, _, _)
\* Bytes i.. of x + y + c followed by the carry out (Len(x) = Len(y)).
AddFrom(x, y, i, c) ==
    IF i > Len(x) THEN <<c>>
    ELSE LET s == x[i] + y[i] + c
         IN  <<s % Base>> \o AddFrom(x, y, i + 1, s \div Base)

\* x + y in the width of x: the sum modulo 2^(8 Len(x)).
WrapAdd(x, y) == Bytes(AddFrom(x, y, 1, 0), Len(x))

RECURSIVE SubFrom(_, _, _, _)
\* Bytes i.. of x - y - b, the borrow out dropped (Len(x) = Len(y)).
SubFrom(x, y, i, b) ==
    IF i > Len(x) THEN <<>>
    ELSE LET d == x[i] - y[i] - b
         IN  <<(d + Base) % Base>> \o SubFrom(x, y, i + 1, IF d < 0 THEN 1 ELSE 0)

\* x - y in the width of x: the difference modulo 2^(8 Len(x)).
WrapSub(x, y) == SubFrom(x, y, 1, 0)

RECURSIVE LessFrom(_, _, _)
LessFrom(x, y, i) ==
    IF i = 0 THEN FALSE
    ELSE IF x[i] # y[i] THEN x[i] < y[i]
    ELSE LessFrom(x, y, i - 1)

\* x < y, x > y, x <= y, x >= y for unsigned integers of the same width.
Less(x, y) == LessFrom(x, y, Len(x))
Greater(x, y) == Less(y, x)
LessEq(x, y) == ~Less(y, x)
GreaterEq(x, y) == ~Less(x, y)

\* The smaller and the larger of two integers.
Min(i, j) == IF i < j THEN i ELSE j
Max(i, j) == IF i > j THEN i ELSE j

RECURSIVE ColumnFrom(_, _, _, _, _)
\* Sum of the byte products x[i] * y[k + 1 - i] for i in lo..hi.
ColumnFrom(x, y, k, lo, hi) ==
    IF lo > hi THEN 0
    ELSE x[lo] * y[k + 1 - lo] + ColumnFrom(x, y, k, lo + 1, hi)

RECURSIVE MulFrom(_, _, _, _, _)
\* Bytes k..n of x * y + c * Base^(k-1): schoolbook multiplication, column
\* k summing the byte products whose indices add up to k + 1.
MulFrom(x, y, n, k, c) ==
    IF k > n THEN <<>>
    ELSE LET s == ColumnFrom(x, y, k, Max(1, k + 1 - Len(y)), Min(Len(x), k)) + c
         IN  <<s % Base>> \o MulFrom(x, y, n, k + 1, s \div Base)

\* x * y in the width of x: the product modulo 2^(8 Len(x)).
WrapMul(x, y) == MulFrom(x, y, Len(x), 1, 0)

\* 2x + b in the width of x (b a bit): each byte shifted left by one, the
\* top bit of the byte below shifted in.
Double(x, b) ==
    Bytes([i \in 1..Len(x) |->
              (2 * x[i] + (IF i = 1 THEN b ELSE x[i - 1] \div (Base \div 2))) % Base],
          Len(x))

RECURSIVE TopByte(_, _)
\* The index of the most significant non-zero byte of x among 1..i (0: none).
TopByte(x, i) ==
    IF i = 0 THEN 0 ELSE IF x[i] # 0 THEN i ELSE TopByte(x, i - 1)

RECURSIVE ShortDivFrom(_, _, _, _)
\* Long division of n by a divisor d < 2^23 held in one integer: quotient
\* bytes 1..i, r the remainder carried down from the bytes above i.
ShortDivFrom(n, d, i, r) ==
    IF i = 0 THEN <<>>
    ELSE LET t == r * Base + n[i]
         IN  ShortDivFrom(n, d, i - 1, t % d) \o <<t \div d>>

RECURSIVE BitsFrom(_, _, _, _, _)
\* Restoring division by d: bits j..0 of the dividend byte b are brought
\* down into the remainder r (one byte wider than the dividend), each
\* giving one quotient bit; q holds the bits so far. The result is the
\* quotient byte and the remainder.
BitsFrom(b, d, j, q, r) ==
    IF j < 0 THEN <<q, r>>
    ELSE LET r2 == Double(r, (b \div (2 ^ j)) % 2)
         IN  IF Less(r2, d)
             THEN BitsFrom(b, d, j - 1, 2 * q, r2)
             ELSE BitsFrom(b, d, j - 1, 2 * q + 1, WrapSub(r2, d))

RECURSIVE LongDivFrom(_, _, _, _)
\* Quotient bytes 1..i of n / d, r the remainder carried down from the
\* bytes above i.
LongDivFrom(n, d, i, r) ==
    IF i = 0 THEN <<>>
    ELSE LET s == BitsFrom(n[i], d, 7, 0, r)
         IN  LongDivFrom(n, d, i - 1, s[2]) \o <<s[1]>>

\* n / d for unsigned integers of the same width (d # 0): the quotient
\* rounded towards zero. A divisor below 2^23 divides byte by byte in one
\* integer. A divisor whose top byte is byte p is larger than the p - 1 top
\* bytes of n, which therefore start as the remainder; the bytes of n below
\* them give the quotient bytes.
Div(n, d) ==
    LET p == TopByte(d, Len(d))
    IN  IF p <= 2 \/ (p = 3 /\ d[3] < Base \div 2)
        THEN ShortDivFrom(n, d[1] + Base * d[2] + Base * Base * d[3], Len(n), 0)
        ELSE Resize(LongDivFrom(n, Resize(d, Len(n) + 1), Len(n) - p + 1,
                                Bytes([i \in 1..(Len(n) + 1) |->
                                          IF i <= p - 1 THEN n[Len(n) - p + 1 + i]
                                          ELSE 0],
                                      Len(n) + 1)),
                    Len(n))

----------------------------------------------------------------------------
(* class Moneybag.                                                         *)

\* std::numeric_limits<coin_number_t>::max(): every byte at its largest.
MAX == Bytes([i \in 1..CoinBytes |-> Base - 1], CoinBytes)

\* A coin_number_t given by a small literal.
Coin(v) == Lit(v, CoinBytes)

\* Moneybag::Moneybag(livres, soliduses, deniers): the counters verbatim.
Moneybag(l, s, d) == [livres |-> l, soliduses |-> s, deniers |-> d]

\* operator+= with >= for > in its guard.
AddOutOfRangeOffByOne(this, m) ==
    \/ GreaterEq(m.livres, WrapSub(MAX, this.livres))
    \/ GreaterEq(m.soliduses, WrapSub(MAX, this.soliduses))
    \/ GreaterEq(m.deniers, WrapSub(MAX, this.deniers))

\* The guard of operator+=.
AddOutOfRange(this, m) ==
    \/ Greater(m.livres, WrapSub(MAX, this.livres))
    \/ Greater(m.soliduses, WrapSub(MAX, this.soliduses))
    \/ Greater(m.deniers, WrapSub(MAX, this.deniers))

\* operator+= checking and writing one counter after the other.
AddAssignStepwise(this, m) ==
    IF Greater(m.livres, WrapSub(MAX, this.livres))
    THEN [threw |-> TRUE, this |-> this]
    ELSE LET l == WrapAdd(this.livres, m.livres)
         IN  IF Greater(m.soliduses, WrapSub(MAX, this.soliduses))
             THEN [threw |-> TRUE, this |-> [this EXCEPT !.livres = l]]
             ELSE LET so == WrapAdd(this.soliduses, m.soliduses)
                  IN  IF Greater(m.deniers, WrapSub(MAX, this.deniers))
                      THEN [threw |-> TRUE,
                            this |-> Moneybag(l, so, this.deniers)]
                      ELSE [threw |-> FALSE,
                            this |-> Moneybag(l, so,
                                              WrapAdd(this.deniers, m.deniers))]

\* Moneybag::operator+=: whether std::out_of_range was thrown, and the
\* object afterwards.
AddAssign(this, m) ==
    IF AddOutOfRange(this, m)
    THEN [threw |-> TRUE, this |-> this]
    ELSE [threw |-> FALSE,
          this |-> Moneybag(WrapAdd(this.livres, m.livres),
                            WrapAdd(this.soliduses, m.soliduses),
                            WrapAdd(this.deniers, m.deniers))]

\* Moneybag::operator+: += on a copy of *this, which is returned.
Plus(this, m) == AddAssign(this, m)

\* operator-= with >= for > in its guard.
SubOutOfRangeOffByOne(this, m) ==
    \/ GreaterEq(m.livres, this.livres)
    \/ GreaterEq(m.soliduses, this.soliduses)
    \/ GreaterEq(m.deniers, this.deniers)

\* operator-= with the soliduses checked twice and the deniers never.
SubOutOfRangeNoDeniers(this, m) ==
    \/ Greater(m.livres, this.livres)
    \/ Greater(m.soliduses, this.soliduses)
    \/ Greater(m.soliduses, this.soliduses)

\* The guard of operator-=.
SubOutOfRange(this, m) ==
    \/ Greater(m.livres, this.livres)
    \/ Greater(m.soliduses, this.soliduses)
    \/ Greater(m.deniers, this.deniers)

\* Moneybag::operator-=.
SubAssign(this, m) ==
    IF SubOutOfRange(this, m)
    THEN [threw |-> TRUE, this |-> this]
    ELSE [threw |-> FALSE,
          this |-> Moneybag(WrapSub(this.livres, m.livres),
                            WrapSub(this.soliduses, m.soliduses),
                            WrapSub(this.deniers, m.deniers))]

\* Moneybag::operator-: -= on a copy of *this, which is returned.
Minus(this, m) == SubAssign(this, m)

\* operator*= with >= for > in its guard.
MulOutOfRangeOffByOne(this, times) ==
    /\ Greater(times, Coin(0))
    /\ LET q == Div(MAX, times)
       IN  \/ GreaterEq(this.livres, q)
           \/ GreaterEq(this.soliduses, q)
           \/ GreaterEq(this.deniers, q)

\* operator*= with only the livres checked.
MulOutOfRangeLivresOnly(this, times) ==
    /\ Greater(times, Coin(0))
    /\ Greater(this.livres, Div(MAX, times))

\* The guard of operator*=: checked only when times > 0.
MulOutOfRange(this, times) ==
    /\ Greater(times, Coin(0))
    /\ LET q == Div(MAX, times)
       IN  \/ Greater(this.livres, q)
           \/ Greater(this.soliduses, q)
           \/ Greater(this.deniers, q)

\* operator*= with the deniers left unmultiplied.
MulAssignNoDeniers(this, times) ==
    IF MulOutOfRange(this, times)
    THEN [threw |-> TRUE, this |-> this]
    ELSE [threw |-> FALSE,
          this |-> Moneybag(WrapMul(this.livres, times),
                            WrapMul(this.soliduses, times),
                            this.deniers)]

\* Moneybag::operator*=.
MulAssign(this, times) ==
    IF MulOutOfRange(this, times)
    THEN [threw |-> TRUE, this |-> this]
    ELSE [threw |-> FALSE,
          this |-> Moneybag(WrapMul(this.livres, times),
                            WrapMul(this.soliduses, times),
                            WrapMul(this.deniers, times))]

\* Moneybag::operator*(uint64_t): *= on a copy of *this, which is returned.
Times(this, times) == MulAssign(this, times)

\* operator*(uint64_t times, const Moneybag& m): m * times.
TimesLeft(times, m) == Times(m, times)

\* operator<=> comparing the counters in order, the first difference
\* deciding (what a defaulted operator<=> would do).
CompareLexicographic(this, m) ==
    IF this.livres # m.livres
    THEN (IF Less(this.livres, m.livres) THEN "less" ELSE "greater")
    ELSE IF this.soliduses # m.soliduses
    THEN (IF Less(this.soliduses, m.soliduses) THEN "less" ELSE "greater")
    ELSE IF this.deniers # m.deniers
    THEN (IF Less(this.deniers, m.deniers) THEN "less" ELSE "greater")
    ELSE "equivalent"

\* Moneybag::operator<=>: a std::partial_ordering.
Compare(this, m) ==
    IF this.livres = m.livres /\ this.soliduses = m.soliduses
       /\ this.deniers = m.deniers
    THEN "equivalent"
    ELSE IF GreaterEq(this.livres, m.livres)
            /\ GreaterEq(this.soliduses, m.soliduses)
            /\ GreaterEq(this.deniers, m.deniers)
    THEN "greater"
    ELSE IF LessEq(this.livres, m.livres)
            /\ LessEq(this.soliduses, m.soliduses)
            /\ LessEq(this.deniers, m.deniers)
    THEN "less"
    ELSE "unordered"

\* Moneybag::operator==: std::is_eq(*this <=> m).
Equals(this, m) == Compare(this, m) = "equivalent"

----------------------------------------------------------------------------
(* class Value.                                                            *)

\* A uint128_t given by a small literal.
Wide(v) == Lit(v, WideBytes)

\* The cast left out: the counter stays a coin_number_t.
ToWideNoCast(c) == c

\* static_cast<uint128_t>(c) for a coin_number_t c.
ToWide(c) == Resize(c, WideBytes)

\* The constructor with 20 (soliduses in a livre) for 240 (deniers in one).
ValueTwentyPerLivre(m) ==
    WrapAdd(WrapAdd(WrapMul(ToWide(m.livres), <<20>>),
                    WrapMul(ToWide(m.soliduses), <<12>>)),
            ToWide(m.deniers))

\* Value::Value(const Moneybag&): value_in_denier, computed in uint128_t.
Value(m) ==
    WrapAdd(WrapAdd(WrapMul(ToWide(m.livres), <<240>>),
                    WrapMul(ToWide(m.soliduses), <<12>>)),
            ToWide(m.deniers))

\* Value::operator<=>(const Value&): a std::weak_ordering.
ValueCompare(v, w) ==
    IF Greater(v, w) THEN "greater"
    ELSE IF Less(v, w) THEN "less"
    ELSE "equivalent"

\* Value::operator==(const Value&): std::is_eq(*this <=> v).
ValueEquals(v, w) == ValueCompare(v, w) = "equivalent"

----------------------------------------------------------------------------
(* The state: one Moneybag object, the operands of the call made on it,    *)
(* and what the call produced.                                             *)

VARIABLES
    lhs,      \* the Moneybag object the operation is called on (*this)
    lhs0,     \* history: the counters lhs was constructed with
    m,        \* the Moneybag passed by const reference
    m0,       \* history: the counters m was constructed with
    times,    \* the uint64_t scalar
    pc,       \* "start", or the operation that has been called
    threw,    \* whether the call threw std::out_of_range
    ret,      \* the Moneybag a binary operator returned
    ord,      \* the ordering a <=> returned, the truth value of an ==
    value     \* value_in_denier of the Value constructed from lhs

vars == <<lhs, lhs0, m, m0, times, pc, threw, ret, ord, value>>

\* No Moneybag has been returned.
NoMoneybag == Moneybag(<<>>, <<>>, <<>>)

\* The unit Moneybags Livre, Solidus and Denier.
Livre == Moneybag(Coin(1), Coin(0), Coin(0))
Solidus == Moneybag(Coin(0), Coin(1), Coin(0))
Denier == Moneybag(Coin(0), Coin(0), Coin(1))

----------------------------------------------------------------------------
(* The operands the calls are made with.                                   *)

\* How far from 0 and from MAX the coin counters of the operands reach.
Low == 1
High == 0

\* x + v and x - v for a small v, in the width of x.
Above(x, v) == WrapAdd(x, Lit(v, Len(x)))
Below(x, v) == WrapSub(x, Lit(v, Len(x)))

\* 2^32: the smallest coin_number_t whose square does not fit.
Half == Bytes([i \in 1..CoinBytes |-> IF i = CoinBytes \div 2 + 1 THEN 1 ELSE 0],
              CoinBytes)

\* Counters at both ends of the range.
EdgeCoins == {Coin(v) : v \in 0..Low} \cup {Below(MAX, v) : v \in 0..High}

\* Scalars: small ones, the largest, large fractions of the largest, 2^32.
Scalars ==
    {Coin(v) : v \in 0..(Low + 1)}
        \cup {Div(MAX, Coin(v)) : v \in 1..(High + 2)} \cup {Half}

\* Counters on both sides of the largest one that k can multiply.
CoinsAround(k) ==
    IF k = Coin(0) THEN EdgeCoins
    ELSE LET q == Div(MAX, k)
         IN  {Coin(v) : v \in 0..Low} \cup {Below(q, v) : v \in 0..High}
                 \cup {MAX} \cup (IF q = MAX THEN {} ELSE {Above(q, 1)})

Moneybags(C) == {Moneybag(l, s, d) : l \in C, s \in C, d \in C}

\* Moneybags whose counters are not normalised across the denominations.
Unnormalised ==
    {Livre, Solidus, Denier,
     Moneybag(Coin(3), Coin(0), Coin(0)), Moneybag(Coin(0), Coin(36), Coin(0)),
     Moneybag(Coin(0), Coin(60), Coin(0)), Moneybag(Coin(0), Coin(0), Coin(240))}

Called ==
    /\ lhs0 = lhs
    /\ m0 = m
    /\ pc = "start"
    /\ threw = FALSE
    /\ ret = NoMoneybag
    /\ ord = "none"
    /\ value = <<>>

\* Two Moneybags with counters at the ends of the range.
InitAdditive ==
    /\ lhs \in Moneybags(EdgeCoins)
    /\ m \in Moneybags(EdgeCoins)
    /\ times = Coin(0)
    /\ Called

\* A scalar and a Moneybag with counters around what the scalar can multiply.
InitScalar ==
    /\ times \in Scalars
    /\ lhs \in Moneybags(CoinsAround(times))
    /\ m = Moneybag(Coin(0), Coin(0), Coin(0))
    /\ Called

\* A Moneybag with small or largest counters, one with small counters, and
\* a scalar.
InitDistributive ==
    /\ lhs \in Moneybags({Coin(v) : v \in 0..Low} \cup {MAX})
    /\ m \in Moneybags({Coin(v) : v \in 0..Low})
    /\ times \in Scalars
    /\ Called

\* Two Moneybags to compare: at the ends of the range, or unnormalised.
InitOrder ==
    /\ \/ lhs \in Moneybags(EdgeCoins) /\ m \in Moneybags(EdgeCoins)
       \/ lhs \in Unnormalised /\ m \in Unnormalised
    /\ times = Coin(0)
    /\ Called

\* a += m
DoAddAssign ==
    /\ pc = "start"
    /\ LET r == AddAssign(lhs, m)
       IN  /\ lhs' = r.this
           /\ threw' = r.threw
    /\ pc' = "add_assign"
    /\ UNCHANGED <<lhs0, m, m0, times, ret, ord, value>>

\* ret = a + m
DoPlus ==
    /\ pc = "start"
    /\ LET r == Plus(lhs, m)
       IN  /\ threw' = r.threw
           /\ ret' = IF r.threw THEN ret ELSE r.this
    /\ pc' = "plus"
    /\ UNCHANGED <<lhs, lhs0, m, m0, times, ord, value>>

\* a -= m
DoSubAssign ==
    /\ pc = "start"
    /\ LET r == SubAssign(lhs, m)
       IN  /\ lhs' = r.this
           /\ threw' = r.threw
    /\ pc' = "sub_assign"
    /\ UNCHANGED <<lhs0, m, m0, times, ret, ord, value>>

\* ret = a - m
DoMinus ==
    /\ pc = "start"
    /\ LET r == Minus(lhs, m)
       IN  /\ threw' = r.threw
           /\ ret' = IF r.threw THEN ret ELSE r.this
    /\ pc' = "minus"
    /\ UNCHANGED <<lhs, lhs0, m, m0, times, ord, value>>

\* a *= times
DoMulAssign ==
    /\ pc = "start"
    /\ LET r == MulAssign(lhs, times)
       IN  /\ lhs' = r.this
           /\ threw' = r.threw
    /\ pc' = "mul_assign"
    /\ UNCHANGED <<lhs0, m, m0, times, ret, ord, value>>

\* ret = a * times
DoTimes ==
    /\ pc = "start"
    /\ LET r == Times(lhs, times)
       IN  /\ threw' = r.threw
           /\ ret' = IF r.threw THEN ret ELSE r.this
    /\ pc' = "times"
    /\ UNCHANGED <<lhs, lhs0, m, m0, times, ord, value>>

\* ret = times * a
DoTimesLeft ==
    /\ pc = "start"
    /\ LET r == TimesLeft(times, lhs)
       IN  /\ threw' = r.threw
           /\ ret' = IF r.threw THEN ret ELSE r.this
    /\ pc' = "times_left"
    /\ UNCHANGED <<lhs, lhs0, m, m0, times, ord, value>>

\* a <=> m
DoCompare ==
    /\ pc = "start"
    /\ ord' = Compare(lhs, m)
    /\ pc' = "compare"
    /\ UNCHANGED <<lhs, lhs0, m, m0, times, threw, ret, value>>

\* a == m
DoEquals ==
    /\ pc = "start"
    /\ ord' = IF Equals(lhs, m) THEN "true" ELSE "false"
    /\ pc' = "equals"
    /\ UNCHANGED <<lhs, lhs0, m, m0, times, threw, ret, value>>

\* Value(a)
DoValue ==
    /\ pc = "start"
    /\ value' = Value(lhs)
    /\ pc' = "value"
    /\ UNCHANGED <<lhs, lhs0, m, m0, times, threw, ret, ord>>

\* Value(a) <=> Value(m)
DoValueCompare ==
    /\ pc = "start"
    /\ value' = Value(lhs)
    /\ ord' = ValueCompare(value', Value(m))
    /\ pc' = "value_compare"
    /\ UNCHANGED <<lhs, lhs0, m, m0, times, threw, ret>>

NextAdditive == DoAddAssign \/ DoPlus \/ DoSubAssign \/ DoMinus
NextScalar == DoMulAssign \/ DoTimes \/ DoTimesLeft
NextInPlace == DoAddAssign \/ DoSubAssign \/ DoMulAssign
NextBinary == DoPlus \/ DoTimes \/ DoTimesLeft
NextOrder == DoCompare \/ DoEquals \/ DoValue \/ DoValueCompare

SpecAdditive == InitAdditive /\ [][NextAdditive]_vars
SpecScalar == InitScalar /\ [][NextScalar]_vars
SpecInPlace == (InitAdditive \/ InitScalar) /\ [][NextInPlace]_vars
SpecBinary == (InitAdditive \/ InitScalar) /\ [][NextBinary]_vars
SpecDistributive == InitDistributive /\ [][NextBinary]_vars
SpecOrder == InitOrder /\ [][NextOrder]_vars

----------------------------------------------------------------------------
(* Arithmetic without a width, to state what the operations should give.   *)

\* x + y exactly: one byte wider than the operands (Len(x) = Len(y)).
ExactSum(x, y) == AddFrom(x, y, 1, 0)

\* x * y exactly: as wide as both operands together.
ExactProduct(x, y) == MulFrom(x, y, Len(x) + Len(y), 1, 0)

\* x < 2^(8n): x fits an unsigned integer of n bytes.
FitsIn(x, n) == \A i \in (n + 1)..Len(x) : x[i] = 0

\* x and y are the same number, whatever their widths.
SameNumber(x, y) ==
    Resize(x, Max(Len(x), Len(y))) = Resize(y, Max(Len(x), Len(y)))

\* The three counters of a Moneybag.
Counters == {"livres", "soliduses", "deniers"}

Zero == Moneybag(Coin(0), Coin(0), Coin(0))

\* The Moneybag the last arithmetic call produced: the object itself for a
\* compound assignment, the returned Moneybag for a binary operator.
Result == IF pc \in {"add_assign", "sub_assign", "mul_assign"} THEN lhs ELSE ret

----------------------------------------------------------------------------
(* C1: a + b and a += b throw out_of_range exactly when the true sum of    *)
(* some pair of counters exceeds MAX; otherwise every counter of the       *)
(* result is the true sum. Adding one denier to a Moneybag holding MAX     *)
(* deniers throws.                                                         *)
AdditionChecked ==
    pc \in {"add_assign", "plus"} =>
        /\ threw <=> \E c \in Counters :
                         ~FitsIn(ExactSum(lhs0[c], m[c]), CoinBytes)
        /\ ~threw => \A c \in Counters :
                         SameNumber(Result[c], ExactSum(lhs0[c], m[c]))
        /\ (lhs0.deniers = MAX /\ m = Denier) => threw

AdditionCheckedWitness ==
    /\ pc = "add_assign"
    /\ lhs0 = Moneybag(Coin(1), Coin(0), MAX)
    /\ m = Denier
    /\ threw

(* C2: a - b and a -= b throw out_of_range exactly when some counter of b  *)
(* is larger than that of a; otherwise every counter of the result is the  *)
(* true difference (result + b = a without any wrap). (0,0,0) - (0,0,1)    *)
(* throws.                                                                 *)
SubtractionChecked ==
    pc \in {"sub_assign", "minus"} =>
        /\ threw <=> \E c \in Counters : Less(lhs0[c], m[c])
        /\ ~threw => \A c \in Counters :
                         SameNumber(ExactSum(Result[c], m[c]), lhs0[c])
        /\ (lhs0 = Zero /\ m = Denier) => threw

SubtractionCheckedWitness ==
    /\ pc = "minus"
    /\ lhs0 = Zero
    /\ m = Denier
    /\ threw
    /\ ret = NoMoneybag

(* C3: a * k, k * a and a *= k throw out_of_range exactly when the true    *)
(* product of some counter with k exceeds MAX; otherwise every counter of  *)
(* the result is the true product. With k = 0 the call never throws and    *)
(* gives (0,0,0).                                                          *)
ScalingChecked ==
    pc \in {"mul_assign", "times", "times_left"} =>
        /\ threw <=> \E c \in Counters :
                         ~FitsIn(ExactProduct(lhs0[c], times), CoinBytes)
        /\ ~threw => \A c \in Counters :
                         SameNumber(Result[c], ExactProduct(lhs0[c], times))
        /\ times = Coin(0) => ~threw /\ Result = Zero

\* 2^32 - 1 soliduses times 2^32: the largest counter 2^32 can multiply.
ScalingCheckedWitness ==
    /\ pc = "mul_assign"
    /\ times = Half
    /\ lhs0 = Moneybag(Coin(1), Below(Half, 1), Coin(0))
    /\ ~threw
    /\ lhs = Moneybag(Half, WrapSub(Coin(0), Half), Coin(0))

(* C4: a compound assignment that throws leaves all three counters of the  *)
(* object as they were before the call, and no call changes the operand m. *)
AllOrNothing ==
    /\ (pc \in {"add_assign", "sub_assign", "mul_assign"} /\ threw) => lhs = lhs0
    /\ m = m0

\* The livres fit and the deniers do not.
AllOrNothingWitness ==
    /\ pc = "add_assign"
    /\ threw
    /\ lhs0 = Moneybag(Coin(1), Coin(0), MAX)
    /\ m0 = Moneybag(Coin(1), Coin(0), Coin(1))
    /\ lhs = lhs0

(* C5: a <=> b is equivalent iff all counters are equal, greater iff every *)
(* counter of a is >= that of b and not all are equal, less iff every      *)
(* counter of a is <= that of b and not all are equal, unordered           *)
(* otherwise. == holds exactly on equivalent, a >= b and b >= a imply      *)
(* a == b, and (1,0,0) versus (0,1,0) is unordered.                        *)
FourOutcomes ==
    LET allEq == \A c \in Counters : lhs[c] = m[c]
        allGe == \A c \in Counters : ~Less(lhs[c], m[c])
        allLe == \A c \in Counters : ~Less(m[c], lhs[c])
    IN  /\ pc = "compare" =>
               /\ ord \in {"equivalent", "greater", "less", "unordered"}
               /\ ord = "equivalent" <=> allEq
               /\ ord = "greater" <=> (allGe /\ ~allEq)
               /\ ord = "less" <=> (allLe /\ ~allEq)
               /\ ord = "unordered" <=>
                      /\ \E c \in Counters : Less(m[c], lhs[c])
                      /\ \E c \in Counters : Less(lhs[c], m[c])
               /\ (ord \in {"greater", "equivalent"}
                   /\ Compare(m, lhs) \in {"greater", "equivalent"})
                      => Equals(lhs, m)
               /\ (lhs = Livre /\ m = Solidus) => ord = "unordered"
        /\ pc = "equals" => (ord = "true" <=> allEq)

FourOutcomesWitness ==
    /\ pc = "compare"
    /\ lhs = Livre
    /\ m = Solidus
    /\ ord = "unordered"

(* C6: Value(q) is livres * 240 + soliduses * 12 + deniers exactly, for    *)
(* every q up to (MAX, MAX, MAX): no product or sum of the conversion      *)
(* leaves the 128 bits. Value(1,0,0) = 240, Value(0,1,0) = 12,             *)
(* Value(0,0,1) = 1, Value(1,1,1) = 253.                                   *)
WorthExact ==
    pc = "value" =>
        LET pl == ExactProduct(ToWide(lhs.livres), <<240>>)
            ps == ExactProduct(ToWide(lhs.soliduses), <<12>>)
            s1 == ExactSum(pl, ps)
            s2 == ExactSum(s1, Resize(lhs.deniers, Len(s1)))
        IN  /\ FitsIn(pl, WideBytes) /\ FitsIn(ps, WideBytes)
            /\ FitsIn(s1, WideBytes) /\ FitsIn(s2, WideBytes)
            /\ SameNumber(value, s2)
            /\ lhs = Livre => value = Wide(240)
            /\ lhs = Solidus => value = Wide(12)
            /\ lhs = Denier => value = Wide(1)
            /\ lhs = Moneybag(Coin(1), Coin(1), Coin(1)) => value = Wide(253)

\* 253 * (2^64 - 1) = 252 * 2^64 + (2^64 - 253).
WorthExactWitness ==
    /\ pc = "value"
    /\ lhs = Moneybag(MAX, MAX, MAX)
    /\ value = <<3, 255, 255, 255, 255, 255, 255, 255,
                 252, 0, 0, 0, 0, 0, 0, 0>>

(* C7: whenever a + b does not throw, (a + b) - b does not throw and is a, *)
(* counter by counter; the same for a += b followed by a -= b.             *)
InverseRoundTrip ==
    /\ (pc = "plus" /\ ~threw) =>
           LET d == Minus(ret, m)
           IN  ~d.threw /\ d.this = lhs /\ Equals(d.this, lhs)
    /\ (pc = "add_assign" /\ ~threw) =>
           LET d == SubAssign(lhs, m)
           IN  ~d.threw /\ d.this = lhs0 /\ Equals(d.this, lhs0)

InverseRoundTripWitness ==
    /\ pc = "plus"
    /\ ~threw
    /\ lhs = Moneybag(Coin(0), Coin(1), Coin(0))
    /\ m = Moneybag(Coin(1), Coin(0), MAX)
    /\ ret = Moneybag(Coin(1), Coin(1), MAX)
    /\ Minus(ret, m).this = lhs

(* C8: whenever a + b does not throw, Value(a + b) is Value(a) + Value(b)  *)
(* exactly; whenever k * a does not throw, Value(k * a) is k * Value(a)    *)
(* exactly.                                                                *)
WorthLinear ==
    /\ (pc = "plus" /\ ~threw) =>
           SameNumber(Value(ret), ExactSum(Value(lhs), Value(m)))
    /\ (pc \in {"times", "times_left"} /\ ~threw) =>
           SameNumber(Value(ret), ExactProduct(times, Value(lhs)))

\* Half of MAX in every counter, doubled.
WorthLinearWitness ==
    /\ pc = "times_left"
    /\ ~threw
    /\ times = Coin(2)
    /\ lhs = Moneybag(Div(MAX, Coin(2)), Coin(1), Div(MAX, Coin(2)))
    /\ ret = Moneybag(Below(MAX, 1), Coin(2), Below(MAX, 1))

(* C9: whenever a + b and (a + b) * k do not throw, neither do a * k,      *)
(* b * k and a * k + b * k, and (a + b) * k == a * k + b * k.              *)
ScalarDistributes ==
    (pc = "plus" /\ ~threw) =>
        LET both == Times(ret, times)
        IN  ~both.threw =>
                LET ak == Times(lhs, times)
                    bk == Times(m, times)
                IN  /\ ~ak.threw
                    /\ ~bk.threw
                    /\ LET sum == Plus(ak.this, bk.this)
                       IN  /\ ~sum.threw
                           /\ Equals(both.this, sum.this)
                           /\ both.this = sum.this

\* (1 + 1) * (MAX / 2) = MAX - 1 in the livres.
ScalarDistributesWitness ==
    /\ pc = "plus"
    /\ ~threw
    /\ times = Div(MAX, Coin(2))
    /\ lhs = Moneybag(Coin(1), Coin(0), Coin(1))
    /\ m = Moneybag(Coin(1), Coin(1), Coin(0))
    /\ Times(ret, times) =
           [threw |-> FALSE,
            this |-> Moneybag(Below(MAX, 1), times, times)]

(* C10, as claimed: a < b implies Value(a) < Value(b), a > b implies       *)
(* Value(a) > Value(b), a == b implies Value(a) == Value(b); and (3,0,0)   *)
(* and (0,36,0) have equal Values yet are unordered and not ==.            *)
WorthMonotone ==
    pc = "value_compare" =>
        /\ Compare(lhs, m) = "less" => ord = "less"
        /\ Compare(lhs, m) = "greater" => ord = "greater"
        /\ Equals(lhs, m) => ord = "equivalent" /\ ValueEquals(Value(lhs), Value(m))

ThreeLivres == Moneybag(Coin(3), Coin(0), Coin(0))

----------------------------------------------------------------------------
Init == InitAdditive \/ InitScalar \/ InitDistributive \/ InitOrder
Next == NextAdditive \/ NextScalar \/ NextOrder
Spec == Init /\ [][Next]_vars
====
